---- MODULE Spec2Model ----
(***************************************************************************)
(* Model of the vector index of the retrieval subsystem                    *)
(* (src/src/rag/faiss_index.py, class FAISSIndex): the in-memory index     *)
(* instance, its three persisted artifacts, and the operations             *)
(* __init__/_load_index, add_embeddings, search, remove_company_filings    *)
(* and save_index.                                                         *)
(***************************************************************************)
EXTENDS Integers, Sequences, FiniteSets, TLC

(***************************************************************************)
(* Bounds of the model.                                                    *)
(***************************************************************************)
\* Stand-in for min_train_points (40000 in the code): the number of
\* buffered vectors at which the codebook is trained.
ScaledMinTrain == 4
\* Largest number of chunks handed to one add_embeddings call.
MaxBatch == 2
\* How many chunks the corpus holds beyond the training minimum.
ExtraChunks == 2
\* Largest k of a search call.
MaxK == 2
\* Largest number of save_index calls that a write error or a process stop
\* interrupts.
MaxFaults == 1

\* Stand-in for the 100 characters below which chunk_text skips a section.
ScaledMinSection == 4
\* Largest chunk_size, in tokens of 4 characters, of a document processor.
MaxChunkTokens == 2
\* Largest number of pieces a filing text is made of.
MaxPieces == 4

\* Largest chunk_size, in tokens, of the processors whose chunk loop is
\* followed iteration by iteration.
MaxWindowTokens == 3
\* Largest number of iterations of the chunk loop that are followed.
MaxIterations == 12

\* Largest number of times the indexing job is started.
MaxRuns == 2

\* Stand-in for the 10000 of "ntotal % 10000 == 0" in index_filing.
ScaledSaveEvery == 2

\* Largest number of filings index_company_filings finds for a company.
MaxFilings == 2

\* Number of chunks of the corpus being indexed.
MaxChunks == ScaledMinTrain + ExtraChunks

\* Company ids carried by indexed chunks.
Companies == {1, 2}

(***************************************************************************)
(* Program constants.                                                      *)
(***************************************************************************)
\* search_k = min(k * 10, ntotal)
OverFetch == 10

\* Optional[int] = None for filter_company_id.
None == -1
\* None where the value is otherwise a string.
NoneStr == "None"
\* Values a caller may pass as filter_company_id.
FilterValues == {None, 0} \cup Companies

\* embedding_dim: int = 384, the default of FAISSIndex.__init__.
DefaultDim == 384

\* Label FAISS returns for an empty result slot.
NoLabel == -1

Min(a, b) == IF a < b THEN a ELSE b

SetMin(S) == CHOOSE x \in S : \A y \in S : x <= y

Range(s) == {s[i] : i \in 1..Len(s)}

\* Python truthiness of an Optional[int].
Truthy(x) == x # None /\ x # 0

(***************************************************************************)
(* Inputs.                                                                 *)
(***************************************************************************)
\* SECFiling.filing_type of the filings of the corpus.
FilingTypes == <<"10-K", "10-Q", "8-K">>

\* The chunk dictionaries of the corpus, in the order the indexing job feeds
\* them: one-chunk filings of companies 1, 2, 1, 2, ... and of filing types
\* 10-K, 10-Q, 8-K, 10-K, ...; each is the dictionary chunk_text builds
\* (text, chunk_id, section, char_start, char_end) merged with the metadata
\* index_filing passes (filing_id, company_id, filing_type, filing_date,
\* accession_number, file_path).
CorpusChunk(i) ==
    [text             |-> "raw text",
     chunk_id         |-> 0,
     section          |-> "FULL_DOCUMENT",
     char_start       |-> 0,
     char_end         |-> 100,
     filing_id        |-> i,
     company_id       |-> IF i % 2 = 1 THEN 1 ELSE 2,
     filing_type      |-> FilingTypes[((i - 1) % 3) + 1],
     filing_date      |-> "2024-01-01",
     accession_number |-> i,
     file_path        |-> i]

\* The next n chunks of the corpus after the first `done` ones.
NextChunks(done, n) == [i \in 1..n |-> CorpusChunk(done + i)]

\* "ok": embeddings match the chunks and the index dimension;
\* "bad_dim": one row per chunk, but of another dimension than the index;
\* "len_mismatch": len(embeddings) != len(chunks).
BatchKinds == {"ok", "bad_dim", "len_mismatch"}

(***************************************************************************)
(* State.                                                                  *)
(***************************************************************************)
VARIABLES
    running,             \* a process holds a constructed FAISSIndex instance
    index,               \* self.index: [is_trained, ntotal]
    metadata,            \* self.metadata: chunk id -> entry
    metadata_order,      \* insertion order of the keys of self.metadata
    id_to_idx,           \* self.id_to_idx: chunk id -> position
    next_id,             \* self.next_id
    pending_embeddings,  \* self._pending_embeddings: one [n, dim_ok] per array
    pending_chunks,      \* self._pending_chunks
    disk,                \* the three files under index_path
    last,                \* the last call on the instance and its outcome
    returned_ids,        \* every id add_embeddings returned on this instance
    trainings,           \* completed index.train() calls on this instance
    fed,                 \* chunks of the corpus handed to add_embeddings so far
    faults,              \* save_index calls interrupted so far
    embedding_dim,       \* self.embedding_dim
    filing_text,         \* the text load_filing reads from the filing's file
    doc_call,            \* the last document-processing call and its result
    batch,               \* the index_company_filings call: position and stats
    query_call,          \* the last RAGSearchEngine.search call and its result
    embedder,            \* self.embedder and the last encoding it was asked for
    job,                 \* index_with_gpu: the position of the process running it
    progress             \* the progress file of the indexing job

vars == <<running, index, metadata, metadata_order, id_to_idx, next_id,
          pending_embeddings, pending_chunks, disk, last, returned_ids,
          trainings, fed, faults, embedding_dim, filing_text, doc_call,
          batch, query_call, embedder, job, progress>>

\* The variables of the index instance and its directory.
index_vars == <<running, index, metadata, metadata_order, id_to_idx, next_id,
                pending_embeddings, pending_chunks, disk, last, returned_ids,
                trainings, fed, faults, embedding_dim>>

\* The variables the index operations do not touch.
others == <<filing_text, job, progress, doc_call, batch, query_call, embedder>>

EmptyMap == [i \in {} |-> 0]

\* _create_index: an IVF structure of dimension self.embedding_dim with no
\* codebook and no vectors.
CreateIndex(dim) == [is_trained |-> FALSE, ntotal |-> 0, d |-> dim]

AbsentFile(data) == [state |-> "absent", data |-> data]

CorruptFile(data) == [state |-> "corrupt", data |-> data]

OkFile(data) == [state |-> "ok", data |-> data]

NoIndexData == CreateIndex(DefaultDim)

NoMetadataData == [metadata |-> EmptyMap, order |-> <<>>]

NoIdMapData == [id_to_idx |-> EmptyMap, next_id |-> 0]

EmptyDisk ==
    [index_file    |-> AbsentFile(NoIndexData),
     metadata_file |-> AbsentFile(NoMetadataData),
     id_map_file   |-> AbsentFile(NoIdMapData)]

Exists(file) == file.state # "absent"

\* The record of a call: which operation, whether it raised, what it returned.
Call(op, raised, ids, hits, k, filter, note) ==
    [op |-> op, raised |-> raised, ids |-> ids, hits |-> hits,
     k |-> k, filter |-> filter, note |-> note]

(***************************************************************************)
(* Construction: __init__, _load_or_create_index, _load_index.             *)
(***************************************************************************)
\* The attributes __init__ sets before _load_or_create_index runs
\* (self.index is None until then).
InitAttrs(idx) ==
    [index |-> idx, metadata |-> EmptyMap, order |-> <<>>,
     id_to_idx |-> EmptyMap, next_id |-> 0, note |-> "created"]

\* _load_index: the three reads in order; an exception in any of them leaves
\* what the earlier reads assigned and replaces self.index by a new one. The
\* structure read from the index file keeps the dimension it was saved with.
LoadIndex(d, dim) ==
    IF d.index_file.state = "corrupt"
    THEN [InitAttrs(CreateIndex(dim)) EXCEPT !.note = "load_failed"]
    ELSE IF d.metadata_file.state = "corrupt"
    THEN [InitAttrs(CreateIndex(dim)) EXCEPT !.note = "load_failed"]
    ELSE LET withMeta ==
                 [InitAttrs(d.index_file.data) EXCEPT
                     !.metadata = d.metadata_file.data.metadata,
                     !.order = d.metadata_file.data.order,
                     !.note = "loaded"]
         IN IF ~Exists(d.id_map_file)
            THEN withMeta
            ELSE IF d.id_map_file.state = "corrupt"
            THEN [withMeta EXCEPT !.index = CreateIndex(dim), !.note = "load_failed"]
            ELSE [withMeta EXCEPT
                     !.id_to_idx = d.id_map_file.data.id_to_idx,
                     !.next_id = d.id_map_file.data.next_id]

\* _load_or_create_index
LoadOrCreateIndex(d, dim) ==
    IF Exists(d.index_file) /\ Exists(d.metadata_file)
    THEN LoadIndex(d, dim)
    ELSE InitAttrs(CreateIndex(dim))

\* FAISSIndex(embedding_dim=dim, ...): a process (re)starts and constructs
\* the instance from whatever the directory holds.
ConstructIndex(dim) ==
    LET inst == LoadOrCreateIndex(disk, dim)
    IN /\ running' = TRUE
       /\ embedding_dim' = dim
       /\ index' = inst.index
       /\ metadata' = inst.metadata
       /\ metadata_order' = inst.order
       /\ id_to_idx' = inst.id_to_idx
       /\ next_id' = inst.next_id
       /\ pending_embeddings' = <<>>
       /\ pending_chunks' = <<>>
       /\ returned_ids' = <<>>
       /\ trainings' = 0
       /\ last' = Call("construct", FALSE, <<>>, <<>>, 0, None, inst.note)
       /\ UNCHANGED <<disk, fed, faults>>

\* FAISSIndex constructed directly.
Construct(dim) ==
    /\ ConstructIndex(dim)
    /\ UNCHANGED others

(***************************************************************************)
(* add_embeddings.                                                         *)
(***************************************************************************)
\* min_train_points: max(40 * 1000, 256 * m), 40000 for every dimension.
min_train_points == ScaledMinTrain

\* dict.get(key, default)
Get(d, key, default) == IF key \in DOMAIN d THEN d[key] ELSE default

\* Variant: the entry is the whole chunk dictionary plus the position.
MetadataEntryWholeChunk(chunk, idx) ==
    [key \in DOMAIN chunk \cup {"idx"} |->
        IF key = "idx" THEN idx ELSE chunk[key]]

\* The metadata entry stored for a chunk at a position; indexed_at is the
\* time of the call.
MetadataEntry(chunk, idx) ==
    [idx         |-> idx,
     file_path   |-> Get(chunk, "file_path", None),
     section     |-> Get(chunk, "section", "UNKNOWN"),
     filing_id   |-> Get(chunk, "filing_id", None),
     company_id  |-> Get(chunk, "company_id", None),
     filing_type |-> Get(chunk, "filing_type", NoneStr),
     filing_date |-> Get(chunk, "filing_date", NoneStr),
     char_start  |-> Get(chunk, "char_start", None),
     char_end    |-> Get(chunk, "char_end", None),
     indexed_at  |-> "utcnow"]

\* sum(len(e) for e in self._pending_embeddings)
RECURSIVE TotalPending(_)
TotalPending(pe) ==
    IF pe = <<>> THEN 0 ELSE Head(pe).n + TotalPending(Tail(pe))

\* Variant: the id is the chunk's place in the call, not drawn from next_id.
AssignedIdPerCall(nid, i) == i - 1

\* The chunk id the loop assigns to the i-th chunk (1-based) of a call.
AssignedId(nid, i) == nid + (i - 1)

\* Variant: the position is not advanced from chunk to chunk.
AssignedIdxStuck(current_idx, i) == current_idx

\* The position the loop records for the i-th chunk (1-based) of a call.
AssignedIdx(current_idx, i) == current_idx + (i - 1)

\* The per-chunk loop of add_embeddings (both branches run the same loop):
\* assigns ids from next_id and positions from current_idx.
StoreChunks(m, order, idm, nid, chunks, current_idx) ==
    LET n == Len(chunks)
        ids == [i \in 1..n |-> AssignedId(nid, i)]
        idSet == Range(ids)
        at(id) == CHOOSE i \in 1..n : ids[i] = id
        fresh == SelectSeq(ids, LAMBDA id : id \notin DOMAIN m)
    IN [metadata  |-> [id \in DOMAIN m \cup idSet |->
                          IF id \in idSet
                          THEN MetadataEntry(chunks[at(id)], AssignedIdx(current_idx, at(id)))
                          ELSE m[id]],
        order     |-> order \o fresh,
        id_to_idx |-> [id \in DOMAIN idm \cup idSet |->
                          IF id \in idSet
                          THEN AssignedIdx(current_idx, at(id))
                          ELSE idm[id]],
        next_id   |-> nid + n,
        chunk_ids |-> ids]

\* The position the training branch starts from (current_idx = 0).
TrainingBaseIdx(ntotal) == 0

\* The position the trained branch starts from (current_idx = index.ntotal).
TrainedBaseIdx(ntotal) == ntotal

\* vstack of the pending arrays and index.train raise when an array has
\* another dimension than the index.
TrainRaises(pe) == \E i \in 1..Len(pe) : ~pe[i].dim_ok

\* Variant: a buffering call hands out provisional ids for its chunks.
BufferedReturnProvisional(chunks) == [i \in 1..Len(chunks) |-> i - 1]

\* return [] while the buffer is below min_train_points.
BufferedReturn(chunks) == <<>>

AddLenMismatch ==
    /\ last' = Call("add_embeddings", TRUE, <<>>, <<>>, 0, None, "ValueError")
    /\ UNCHANGED <<running, index, metadata, metadata_order, id_to_idx, next_id,
                   pending_embeddings, pending_chunks, disk, returned_ids,
                   trainings, fed, faults, embedding_dim>>

AddUntrained(chunks, kind) ==
    LET pe == Append(pending_embeddings, [n |-> Len(chunks), dim_ok |-> (kind = "ok")])
        pc == pending_chunks \o chunks
        total_pending == TotalPending(pe)
    IN /\ IF total_pending < min_train_points
          THEN /\ pending_embeddings' = pe
               /\ pending_chunks' = pc
               /\ last' = Call("add_embeddings", FALSE, BufferedReturn(chunks),
                               <<>>, 0, None, "buffered")
               /\ UNCHANGED <<index, metadata, metadata_order, id_to_idx,
                              next_id, returned_ids, trainings>>
          ELSE IF TrainRaises(pe)
          THEN /\ pending_embeddings' = pe
               /\ pending_chunks' = pc
               /\ last' = Call("add_embeddings", TRUE, <<>>, <<>>, 0, None, "train_failed")
               /\ UNCHANGED <<index, metadata, metadata_order, id_to_idx,
                              next_id, returned_ids, trainings>>
          ELSE LET st == StoreChunks(metadata, metadata_order, id_to_idx, next_id,
                                     pc, TrainingBaseIdx(index.ntotal))
               IN /\ pending_embeddings' = <<>>
                  /\ pending_chunks' = <<>>
                  /\ trainings' = trainings + 1
                  /\ metadata' = st.metadata
                  /\ metadata_order' = st.order
                  /\ id_to_idx' = st.id_to_idx
                  /\ next_id' = st.next_id
                  /\ index' = [index EXCEPT !.is_trained = TRUE,
                                             !.ntotal = index.ntotal + total_pending]
                  /\ returned_ids' = returned_ids \o st.chunk_ids
                  /\ last' = Call("add_embeddings", FALSE, st.chunk_ids, <<>>, 0, None, "trained")
       /\ UNCHANGED <<running, disk>>

AddTrained(chunks, kind) ==
    LET st == StoreChunks(metadata, metadata_order, id_to_idx, next_id,
                          chunks, TrainedBaseIdx(index.ntotal))
    IN /\ metadata' = st.metadata
       /\ metadata_order' = st.order
       /\ id_to_idx' = st.id_to_idx
       /\ next_id' = st.next_id
       /\ IF kind = "bad_dim"
          THEN \* index.add raises after the loop has stored the entries
               /\ last' = Call("add_embeddings", TRUE, <<>>, <<>>, 0, None, "add_failed")
               /\ UNCHANGED <<index, returned_ids>>
          ELSE /\ index' = [index EXCEPT !.ntotal = index.ntotal + Len(chunks)]
               /\ returned_ids' = returned_ids \o st.chunk_ids
               /\ last' = Call("add_embeddings", FALSE, st.chunk_ids, <<>>, 0, None, "added")
       /\ UNCHANGED <<running, pending_embeddings, pending_chunks, disk, trainings>>

\* add_embeddings(embeddings, chunks) for the next n chunks of the corpus; a
\* call rejected for its lengths leaves the chunks to be fed again.
AddEmbeddings(n, kind) ==
    /\ running
    /\ fed + n <= MaxChunks
    /\ UNCHANGED <<faults, embedding_dim>>
    /\ IF kind = "len_mismatch"
       THEN AddLenMismatch
       ELSE /\ fed' = fed + n
            /\ IF ~index.is_trained
               THEN AddUntrained(NextChunks(fed, n), kind)
               ELSE AddTrained(NextChunks(fed, n), kind)

\* add_embeddings called on the index directly.
Add(n, kind) ==
    /\ AddEmbeddings(n, kind)
    /\ UNCHANGED others


(***************************************************************************)
(* search.                                                                 *)
(***************************************************************************)
\* The vectors are points of a line: the vector stored at position p lies at
\* coordinate p, a query at coordinate q, and the score is the squared L2
\* distance.
Distance(q, p) == (p - q) * (p - q)

\* The inverted-file search visits the cells near the query only: "all"
\* cells, or only the cells of the vectors within distance 1 of the query.
Visited(q, p, reach) == reach = "all" \/ Distance(q, p) <= 1

\* The searches fed to the index, as query coordinate and reach: a query at
\* the oldest vector, one beyond the newest vector, and one between the two
\* oldest vectors that visits the nearby cells only.
SearchInputs == {<<0, "all">>, <<MaxChunks, "all">>, <<1, "near">>}

\* The next candidate of the ANN structure: least distance, then position.
Nearest(q, S) ==
    CHOOSE p \in S : \A r \in S :
        Distance(q, p) < Distance(q, r) \/ (Distance(q, p) = Distance(q, r) /\ p <= r)

RECURSIVE SortByDistance(_, _)
SortByDistance(q, S) ==
    IF S = {} THEN <<>>
    ELSE LET p == Nearest(q, S)
         IN <<[dist |-> Distance(q, p), idx |-> p]>> \o SortByDistance(q, S \ {p})

\* index.search(query, search_k): search_k slots in ascending distance, the
\* slots without a candidate carry label -1.
IndexSearch(q, reach, ntotal, search_k) ==
    LET found == SortByDistance(q, {p \in 0..(ntotal - 1) : Visited(q, p, reach)})
    IN [i \in 1..search_k |->
           IF i <= Len(found) THEN found[i] ELSE [dist |-> 0, idx |-> NoLabel]]

\* for cid, cidx in self.id_to_idx.items(): the first id, in insertion order
\* (ids are inserted in ascending order), recorded at the position.
ChunkIdAt(idm, idx) ==
    LET cids == {cid \in DOMAIN idm : idm[cid] = idx}
    IN IF cids = {} THEN None ELSE SetMin(cids)

\* if filter_company_id and metadata.get('company_id') != filter_company_id
FilteredOut(filter_company_id, entry) ==
    Truthy(filter_company_id) /\ entry.company_id # filter_company_id

\* The loop over the raw candidates, stopping at k results.
RECURSIVE CollectResults(_, _, _, _, _, _)
CollectResults(raw, m, idm, k, filter_company_id, results) ==
    IF raw = <<>> \/ Len(results) >= k THEN results
    ELSE LET cand == Head(raw)
             chunk_id == ChunkIdAt(idm, cand.idx)
             skip == \/ cand.idx = NoLabel
                     \/ chunk_id = None
                     \/ chunk_id \notin DOMAIN m
                     \/ FilteredOut(filter_company_id, m[chunk_id])
         IN CollectResults(Tail(raw), m, idm, k, filter_company_id,
                IF skip THEN results
                ELSE Append(results, [chunk_id |-> chunk_id,
                                      score |-> cand.dist,
                                      company_id |-> m[chunk_id].company_id]))

\* search(query_embedding, k, filter_company_id) as a function of the state
SearchResults(idx, m, idm, q, reach, k, filter_company_id) ==
    IF idx.ntotal = 0 THEN <<>>
    ELSE LET search_k == Min(k * OverFetch, idx.ntotal)
         IN CollectResults(IndexSearch(q, reach, idx.ntotal, search_k),
                           m, idm, k, filter_company_id, <<>>)

SearchIndex(k, filter_company_id, q, reach) ==
    /\ running
    /\ last' = Call("search", FALSE, <<>>,
                    SearchResults(index, metadata, id_to_idx, q, reach, k, filter_company_id),
                    k, filter_company_id, "searched")
    /\ UNCHANGED <<running, index, metadata, metadata_order, id_to_idx, next_id,
                   pending_embeddings, pending_chunks, disk, returned_ids,
                   trainings, fed, faults, embedding_dim>>

\* search called on the index directly.
Search(k, filter_company_id, q, reach) ==
    /\ SearchIndex(k, filter_company_id, q, reach)
    /\ UNCHANGED others

(***************************************************************************)
(* remove_company_filings.                                                 *)
(***************************************************************************)
Without(f, x) == [y \in DOMAIN f \ {x} |-> f[y]]

\* for chunk_id in chunks_to_remove: del self.metadata[chunk_id];
\* del self.id_to_idx[chunk_id] -- the second del raises KeyError for an id
\* the id map does not hold.
RECURSIVE RemoveChunks(_, _, _, _)
RemoveChunks(chunks_to_remove, m, order, idm) ==
    IF chunks_to_remove = <<>>
    THEN [metadata |-> m, order |-> order, id_to_idx |-> idm, raised |-> FALSE]
    ELSE LET chunk_id == Head(chunks_to_remove)
             m2 == Without(m, chunk_id)
             order2 == SelectSeq(order, LAMBDA id : id # chunk_id)
         IN IF chunk_id \notin DOMAIN idm
            THEN [metadata |-> m2, order |-> order2, id_to_idx |-> idm, raised |-> TRUE]
            ELSE RemoveChunks(Tail(chunks_to_remove), m2, order2, Without(idm, chunk_id))

\* The ids of the company's entries, in the iteration order of self.metadata.
ChunksToRemove(m, order, company_id) ==
    SelectSeq(order, LAMBDA id : m[id].company_id = company_id)

RemoveCompany(company_id) ==
    LET r == RemoveChunks(ChunksToRemove(metadata, metadata_order, company_id),
                          metadata, metadata_order, id_to_idx)
    IN /\ running
       /\ metadata' = r.metadata
       /\ metadata_order' = r.order
       /\ id_to_idx' = r.id_to_idx
       /\ last' = Call("remove_company_filings", r.raised, <<>>, <<>>, 0, company_id,
                       IF r.raised THEN "KeyError" ELSE "removed")
       /\ UNCHANGED <<running, index, next_id, pending_embeddings, pending_chunks,
                      disk, returned_ids, trainings, fed, faults, embedding_dim,
                      others>>

(***************************************************************************)
(* save_index.                                                             *)
(***************************************************************************)
\* How a save_index call that starts writing ends: all three writes succeed;
\* one of the writes raises and leaves its file truncated (the exception is
\* logged and swallowed); or the process stops between two writes.
SaveOutcomes ==
    {"ok", "fail_index", "fail_metadata", "fail_id_map",
     "stop_after_index", "stop_after_metadata"}

\* Variant: the metadata file is written from an empty map.
NewMetadataFileEmpty == OkFile(NoMetadataData)

NewMetadataFile == OkFile([metadata |-> metadata, order |-> metadata_order])

\* Variant: only the pending-vectors check, the is_trained check is missing.
SaveSkippedPendingOnly(idx, pe) == pe # <<>>

\* The two early returns of save_index: vectors pending, or index untrained.
SaveSkipped(idx, pe) == pe # <<>> \/ ~idx.is_trained

NewIndexFile == OkFile(index)

NewIdMapFile == OkFile([id_to_idx |-> id_to_idx, next_id |-> next_id])

\* The directory after the writes of save_index, in the order the code
\* issues them: index file, metadata file, id-map file.
DiskAfterSave(outcome) ==
    CASE outcome = "ok" ->
            [index_file |-> NewIndexFile, metadata_file |-> NewMetadataFile,
             id_map_file |-> NewIdMapFile]
      [] outcome = "fail_index" ->
            [disk EXCEPT !.index_file = CorruptFile(NoIndexData)]
      [] outcome = "fail_metadata" ->
            [disk EXCEPT !.index_file = NewIndexFile,
                         !.metadata_file = CorruptFile(NoMetadataData)]
      [] outcome = "fail_id_map" ->
            [disk EXCEPT !.index_file = NewIndexFile,
                         !.metadata_file = NewMetadataFile,
                         !.id_map_file = CorruptFile(NoIdMapData)]
      [] outcome = "stop_after_index" ->
            [disk EXCEPT !.index_file = NewIndexFile]
      [] outcome = "stop_after_metadata" ->
            [disk EXCEPT !.index_file = NewIndexFile,
                         !.metadata_file = NewMetadataFile]

Stops(outcome) == outcome \in {"stop_after_index", "stop_after_metadata"}

\* The process is gone: no instance, nothing in memory.
Stopped ==
    /\ running' = FALSE
    /\ index' = CreateIndex(DefaultDim)
    /\ metadata' = EmptyMap
    /\ metadata_order' = <<>>
    /\ id_to_idx' = EmptyMap
    /\ next_id' = 0
    /\ pending_embeddings' = <<>>
    /\ pending_chunks' = <<>>
    /\ returned_ids' = <<>>
    /\ trainings' = 0

WriteIndex(outcome) ==
    /\ running
    /\ UNCHANGED <<fed, embedding_dim>>
    /\ IF SaveSkipped(index, pending_embeddings)
       THEN /\ outcome = "ok"
            /\ UNCHANGED faults
            /\ last' = Call("save_index", FALSE, <<>>, <<>>, 0, None, "skipped")
            /\ UNCHANGED <<running, index, metadata, metadata_order, id_to_idx,
                           next_id, pending_embeddings, pending_chunks, disk,
                           returned_ids, trainings>>
       ELSE /\ faults' = IF outcome = "ok" THEN faults ELSE faults + 1
            /\ faults' <= MaxFaults
            /\ disk' = DiskAfterSave(outcome)
            /\ last' = Call("save_index", FALSE, <<>>, <<>>, 0, None, outcome)
            /\ IF Stops(outcome)
               THEN Stopped
               ELSE UNCHANGED <<running, index, metadata, metadata_order,
                                id_to_idx, next_id, pending_embeddings,
                                pending_chunks, returned_ids, trainings>>

\* save_index called on the index directly.
SaveIndex(outcome) ==
    /\ WriteIndex(outcome)
    /\ UNCHANGED others

(***************************************************************************)
(* RAGSearchEngine.__init__ and the calls it makes on its index with the   *)
(* vectors of its embedding model.                                         *)
(***************************************************************************)
\* EmbeddingModel.MODEL_OPTIONS
ModelTypes == {"general-fast", "general-best", "biomedical", "retrieval-optimized"}

\* get_sentence_embedding_dimension() of the model of each type.
ModelDim(model_type) ==
    IF model_type \in {"general-fast", "retrieval-optimized"} THEN 384 ELSE 768

\* self.embedding_dim of the engine: 384 for the hybrid embedder, else the
\* dimension of the model loaded.
EngineDim(model_type, use_hybrid) ==
    IF use_hybrid THEN 384 ELSE ModelDim(model_type)

\* self.embedder of RAGSearchEngine() with its default arguments, asked for
\* no encoding yet: bio_model is loaded or not, op the last encoding call,
\* used the model that encoded, dim the dimension of the vectors.
NoEmbedder ==
    [hybrid |-> FALSE, model_type |-> "general-fast", bio_model |-> FALSE,
     op |-> "none", raised |-> FALSE, used |-> NoneStr, dim |-> 0]

\* HybridEmbedder() or EmbeddingModel(model_type), as __init__ loads it.
NewEmbedder(model_type, use_hybrid) ==
    [NoEmbedder EXCEPT !.hybrid = use_hybrid,
                       !.model_type = IF use_hybrid THEN "general-fast"
                                      ELSE model_type]

\* The variables no engine call touches.
engine_frame == <<filing_text, job, progress, doc_call, batch, query_call>>

\* RAGSearchEngine(model_type, use_hybrid): loads the embedder (the
\* HybridEmbedder loads 'general-fast' and no bio model yet) and constructs
\* FAISSIndex(self.embedding_dim, index_path).
EngineConstruct(model_type, use_hybrid) ==
    /\ embedder' = NewEmbedder(model_type, use_hybrid)
    /\ ConstructIndex(EngineDim(model_type, use_hybrid))
    /\ UNCHANGED engine_frame

\* faiss asserts that the vectors handed to index.add or index.search have
\* the dimension of the structure.
DimKind(dim, idx) == IF dim = idx.d THEN "ok" ELSE "bad_dim"

\* self.embedder.encode_chunks(chunks): EmbeddingModel encodes with its
\* model; HybridEmbedder defines no encode_chunks (AttributeError).
EncodeChunks ==
    IF embedder.hybrid
    THEN [embedder EXCEPT !.op = "encode_chunks", !.raised = TRUE,
                          !.used = NoneStr, !.dim = 0]
    ELSE [embedder EXCEPT !.op = "encode_chunks", !.raised = FALSE,
                          !.used = embedder.model_type,
                          !.dim = ModelDim(embedder.model_type)]

\* The encoding and the add_embeddings call of index_filing for the next n
\* chunks: index.add_embeddings(embeddings, chunks) is reached only with
\* embeddings.
EngineAdd(n) ==
    /\ running
    /\ embedder' = EncodeChunks
    /\ IF embedder'.raised
       THEN UNCHANGED index_vars
       ELSE AddEmbeddings(n, DimKind(embedder'.dim, index))
    /\ UNCHANGED engine_frame

\* The model search encodes the query with: for the hybrid embedder the bio
\* model when _is_biomedical_content(query), else the general model.
QueryModel(is_bio) ==
    IF embedder.hybrid /\ is_bio THEN "biomedical" ELSE embedder.model_type

\* The encoding of the query in search; the bio model is loaded on first use.
EncodeQuery(is_bio) ==
    [embedder EXCEPT !.op = "encode_query", !.raised = FALSE,
                     !.bio_model = @ \/ (embedder.hybrid /\ is_bio),
                     !.used = QueryModel(is_bio),
                     !.dim = ModelDim(QueryModel(is_bio))]

\* The encoding and the index.search(query_embedding, k, filter_company_id)
\* call of search: index.search raises on a structure of another dimension
\* than the query vector, unless the early return for ntotal = 0 is taken.
EngineSearch(k, filter_company_id, q, reach, is_bio) ==
    /\ embedder' = EncodeQuery(is_bio)
    /\ IF index.ntotal # 0 /\ DimKind(embedder'.dim, index) = "bad_dim"
       THEN /\ running
            /\ last' = Call("search", TRUE, <<>>, <<>>, k, filter_company_id,
                            "AssertionError")
            /\ UNCHANGED <<running, index, metadata, metadata_order,
                           id_to_idx, next_id, pending_embeddings,
                           pending_chunks, disk, returned_ids, trainings, fed,
                           faults, embedding_dim>>
       ELSE SearchIndex(k, filter_company_id, q, reach)
    /\ UNCHANGED engine_frame

\* HybridEmbedder.encode_texts(texts), has_bio telling whether one of the
\* texts is biomedical content: the bio model is loaded for such a text, and
\* the general model encodes every text when the two dimensions differ.
HybridEncodeTexts(has_bio) ==
    /\ running
    /\ embedder.hybrid
    /\ embedder' =
          [embedder EXCEPT
              !.op = "encode_texts", !.raised = FALSE,
              !.bio_model = @ \/ has_bio,
              !.used = IF has_bio /\ ModelDim("general-fast") = ModelDim("biomedical")
                       THEN "general-fast and biomedical"
                       ELSE "general-fast",
              !.dim = ModelDim("general-fast")]
    /\ UNCHANGED <<index_vars, engine_frame>>

(***************************************************************************)
(* RAGSearchEngine.index_filing and index_company_filings.                 *)
(***************************************************************************)
\* The ways index_filing returns 0 before it calls add_embeddings: the
\* filing has no file on disk; create_filing_chunks returns [] (its answer
\* for a file it cannot load or chunk, and for a text without a chunk);
\* encode_chunks raises.
EarlyOutcomes == {"no_file", "no_chunks", "encode_raises"}

\* Each filing of the corpus yields one chunk.
ChunksPerFiling == 1

\* stats as index_company_filings initialises it, for a call not made yet;
\* state is the position of the call, attempted the filings handed to
\* index_filing so far, note the way the last index_filing call ended.
NoBatch ==
    [state |-> "idle", total_filings |-> 0, attempted |-> <<>>,
     indexed_filings |-> 0, total_chunks |-> 0, failed_filings |-> <<>>,
     note |-> "none"]

\* The call is inside its loop or inside index_filing.
InBatch == batch.state \in {"loop", "added"}

\* The filing the loop hands to index_filing next, as its place in filings.
NextFiling == Len(batch.attempted) + 1

\* Variant: a filing without chunks is not listed.
RecordIndexedOnly(stats, filing, chunks_indexed) ==
    IF chunks_indexed > 0
    THEN [stats EXCEPT !.indexed_filings = @ + 1,
                       !.total_chunks = @ + chunks_indexed]
    ELSE stats

\* if chunks_indexed > 0: ... else: stats['failed_filings'].append(...)
Record(stats, filing, chunks_indexed) ==
    IF chunks_indexed > 0
    THEN [stats EXCEPT !.indexed_filings = @ + 1,
                       !.total_chunks = @ + chunks_indexed]
    ELSE [stats EXCEPT !.failed_filings = Append(@, filing)]

\* index_company_filings up to its loop: ValueError for a company the
\* database does not hold, else the stats of a batch of n filings.
IndexCompanyFilings(found, n) ==
    /\ running
    /\ ~InBatch
    /\ batch' = IF found
                THEN [NoBatch EXCEPT !.state = "loop", !.total_filings = n]
                ELSE [NoBatch EXCEPT !.state = "raised", !.note = "ValueError"]
    /\ UNCHANGED <<index_vars, filing_text, job, progress, doc_call, query_call, embedder>>

\* One pass of the loop whose index_filing call returns 0 before
\* add_embeddings.
IndexFilingEarly(outcome) ==
    /\ running
    /\ batch.state = "loop"
    /\ NextFiling <= batch.total_filings
    /\ batch' = Record([batch EXCEPT !.attempted = Append(@, NextFiling),
                                     !.note = outcome],
                       NextFiling, 0)
    /\ UNCHANGED <<index_vars, filing_text, job, progress, doc_call, query_call, embedder>>

\* One pass of the loop whose index_filing call reaches add_embeddings with
\* the vectors of the engine's model (encode_chunks of the hybrid embedder
\* raises): an exception of add_embeddings is caught and index_filing
\* returns 0.
IndexFilingAdd ==
    /\ batch.state = "loop"
    /\ NextFiling <= batch.total_filings
    /\ ~embedder.hybrid
    /\ embedder' = EncodeChunks
    /\ AddEmbeddings(ChunksPerFiling, DimKind(embedder'.dim, index))
    /\ LET attempt == [batch EXCEPT !.attempted = Append(@, NextFiling)]
       IN batch' = IF last'.raised
                   THEN Record([attempt EXCEPT !.note = "add_raises"],
                               NextFiling, 0)
                   ELSE [attempt EXCEPT !.state = "added", !.note = "added"]
    /\ UNCHANGED <<filing_text, job, progress, doc_call, query_call>>

\* The rest of index_filing after add_embeddings returned: the periodic
\* save, return len(chunks), and the loop's bookkeeping.
IndexFilingSave(outcome) ==
    /\ batch.state = "added"
    /\ IF index.ntotal % ScaledSaveEvery = 0
       THEN WriteIndex(outcome)
       ELSE outcome = "ok" /\ UNCHANGED index_vars
    /\ batch' = IF running'
                THEN Record([batch EXCEPT !.state = "loop"],
                            Len(batch.attempted), ChunksPerFiling)
                ELSE NoBatch
    /\ UNCHANGED <<filing_text, job, progress, doc_call, query_call, embedder>>

\* After the loop: self.index.save_index(); return stats. The note is the
\* way the save_index call ended.
FinishBatch(outcome) ==
    /\ batch.state = "loop"
    /\ NextFiling > batch.total_filings
    /\ WriteIndex(outcome)
    /\ batch' = IF running'
                THEN [batch EXCEPT !.state = "returned",
                                   !.note = last'.note]
                ELSE NoBatch
    /\ UNCHANGED <<filing_text, job, progress, doc_call, query_call, embedder>>

\* An engine is started while no batch is running.
StartEngine(model_type, use_hybrid) ==
    /\ ~InBatch
    /\ embedder' = NewEmbedder(model_type, use_hybrid)
    /\ ConstructIndex(EngineDim(model_type, use_hybrid))
    /\ UNCHANGED engine_frame

(***************************************************************************)
(* scripts/runpod_index_all.py: IndexingProgress and index_with_gpu.       *)
(***************************************************************************)
\* The tickers get_companies_to_index returns, in its order.
JobCompanies == <<"AAA", "BBB">>

\* Stand-in for the 10 of "idx % 10 == 0", the periodic save of the job.
JobSaveEvery == 2

\* _load_progress without a progress file; start_time, last_updated,
\* total_companies and failed_companies are left out.
NoProgress ==
    [indexed_companies |-> <<>>, total_filings |-> 0, total_chunks |-> 0]

\* No process runs the job; idx counts the companies the loop has passed,
\* runs the starts of the job so far.
NoJob == [state |-> "idle", idx |-> 0, resume |-> FALSE, runs |-> 0]

\* mark_indexed(ticker, stats): the file is written in the same call.
MarkIndexed(p, ticker, stats) ==
    [p EXCEPT !.indexed_companies = Append(@, ticker),
              !.total_filings = @ + stats.indexed_filings,
              !.total_chunks = @ + stats.total_chunks]

\* progress.is_indexed(ticker)
IsIndexed(p, ticker) == ticker \in Range(p.indexed_companies)

\* The loop is at a company and no index_company_filings call is open.
AtCompany ==
    /\ running
    /\ job.state = "loop"
    /\ job.idx < Len(JobCompanies)
    /\ batch.state = "idle"

\* if resume and progress.is_indexed(company.ticker): continue
Skips == job.resume /\ IsIndexed(progress, JobCompanies[job.idx + 1])

\* index_with_gpu(resume) up to its loop: a process starts, constructs the
\* engine over the index directory and loads the progress file.
StartJob(resume) ==
    /\ ~running \/ job.state = "done"
    /\ job.runs < MaxRuns
    /\ job' = [state |-> "loop", idx |-> 0, resume |-> resume,
               runs |-> job.runs + 1]
    /\ batch' = NoBatch
    /\ embedder' = NewEmbedder("general-fast", FALSE)
    /\ ConstructIndex(EngineDim("general-fast", FALSE))
    /\ UNCHANGED <<filing_text, doc_call, query_call, progress>>

\* One pass of the loop for a company the progress file lists.
JobSkip ==
    /\ AtCompany
    /\ Skips
    /\ job' = [job EXCEPT !.idx = @ + 1]
    /\ UNCHANGED <<index_vars, filing_text, doc_call, batch, query_call,
                   embedder, progress>>

\* engine.index_company_filings(company.id, ...) is called for a company
\* with n filings; the company is in the database.
JobIndexCompany(n) ==
    /\ AtCompany
    /\ ~Skips
    /\ IndexCompanyFilings(TRUE, n)

\* index_company_filings has returned stats: progress.mark_indexed, then
\* the periodic save of the loop.
JobMarkIndexed ==
    /\ running
    /\ job.state = "loop"
    /\ batch.state = "returned"
    /\ progress' = MarkIndexed(progress, JobCompanies[job.idx + 1], batch)
    /\ job' = [job EXCEPT !.idx = @ + 1]
    /\ batch' = NoBatch
    /\ IF (job.idx + 1) % JobSaveEvery = 0
       THEN WriteIndex("ok")
       ELSE UNCHANGED index_vars
    /\ UNCHANGED <<filing_text, doc_call, query_call, embedder>>

\* After the loop: the final save; the process ends.
JobFinish ==
    /\ job.state = "loop"
    /\ job.idx = Len(JobCompanies)
    /\ batch.state = "idle"
    /\ WriteIndex("ok")
    /\ job' = [job EXCEPT !.state = "done"]
    /\ UNCHANGED <<filing_text, doc_call, batch, query_call, embedder,
                   progress>>

\* The process running the job is stopped: the files stay as they are.
JobStop ==
    /\ running
    /\ job.state = "loop"
    /\ Stopped
    /\ last' = Call("none", FALSE, <<>>, <<>>, 0, None, "stopped")
    /\ job' = [job EXCEPT !.state = "idle"]
    /\ batch' = NoBatch
    /\ UNCHANGED <<disk, fed, faults, embedding_dim, filing_text, doc_call,
                   query_call, embedder, progress>>

(***************************************************************************)
(* Texts: sequences of one-character strings.                              *)
(***************************************************************************)
\* str.isspace characters of the texts considered.
Whitespace == {" ", "\n", "\t", "\r"}

Digits == {"0", "1", "2", "3", "4", "5", "6", "7", "8", "9"}

LowerLetters ==
    <<"a", "b", "c", "d", "e", "f", "g", "h", "i", "j", "k", "l", "m",
      "n", "o", "p", "q", "r", "s", "t", "u", "v", "w", "x", "y", "z">>

UpperLetters ==
    <<"A", "B", "C", "D", "E", "F", "G", "H", "I", "J", "K", "L", "M",
      "N", "O", "P", "Q", "R", "S", "T", "U", "V", "W", "X", "Y", "Z">>

\* [a-z]
Lower == Range(LowerLetters)

\* [A-Z]
Upper == Range(UpperLetters)

\* [a-zA-Z]
Letters == Lower \cup Upper

\* The character folded to upper case (re.IGNORECASE).
ToUpper(c) ==
    IF c \in Lower
    THEN UpperLetters[CHOOSE i \in 1..26 : LowerLetters[i] = c]
    ELSE c

\* s[n:]
Drop(s, n) == SubSeq(s, n + 1, Len(s))

\* An index of a slice as Python reads it: a negative one counts from the
\* end, and both ends are clipped to the string.
SliceIndex(s, i) ==
    IF i < 0
    THEN (IF Len(s) + i < 0 THEN 0 ELSE Len(s) + i)
    ELSE Min(i, Len(s))

\* s[a:b] for 0 <= a
Slice(s, a, b) == SubSeq(s, SliceIndex(s, a) + 1, SliceIndex(s, b))

\* s.startswith(p)
StartsWith(s, p) == Len(s) >= Len(p) /\ SubSeq(s, 1, Len(p)) = p

\* Length of the longest prefix of s made of characters of class C.
RECURSIVE Run(_, _)
Run(s, C) == IF s # <<>> /\ Head(s) \in C THEN 1 + Run(Tail(s), C) ELSE 0

RECURSIVE RStrip(_)
RStrip(s) ==
    IF s # <<>> /\ s[Len(s)] \in Whitespace
    THEN RStrip(SubSeq(s, 1, Len(s) - 1))
    ELSE s

\* str.strip()
Strip(s) == RStrip(Drop(s, Run(s, Whitespace)))

(***************************************************************************)
(* SECDocumentProcessor.clean_text.                                        *)
(***************************************************************************)
\* re.sub(r'\s+', ' ', text)
RECURSIVE CollapseWhitespace(_)
CollapseWhitespace(s) ==
    IF s = <<>> THEN <<>>
    ELSE IF Head(s) \in Whitespace
    THEN <<" ">> \o CollapseWhitespace(Drop(s, Run(s, Whitespace)))
    ELSE <<Head(s)>> \o CollapseWhitespace(Tail(s))

\* Length of the match of r'Page \d+ of \d+' at the start of s, 0 for none.
PageNumberMatch(s) ==
    LET page == <<"P", "a", "g", "e", " ">>
        of == <<" ", "o", "f", " ">>
        d1 == Run(Drop(s, Len(page)), Digits)
        rest == Drop(s, Len(page) + d1)
        d2 == Run(Drop(rest, Len(of)), Digits)
    IN IF StartsWith(s, page) /\ d1 > 0 /\ StartsWith(rest, of) /\ d2 > 0
       THEN Len(page) + d1 + Len(of) + d2
       ELSE 0

\* re.sub(r'Page \d+ of \d+', '', text)
RECURSIVE RemovePageNumbers(_)
RemovePageNumbers(s) ==
    IF s = <<>> THEN <<>>
    ELSE IF PageNumberMatch(s) > 0
    THEN RemovePageNumbers(Drop(s, PageNumberMatch(s)))
    ELSE <<Head(s)>> \o RemovePageNumbers(Tail(s))

\* re.sub(r'\n{3,}', '\n\n', text)
RECURSIVE SqueezeNewlines(_)
SqueezeNewlines(s) ==
    IF s = <<>> THEN <<>>
    ELSE IF Run(s, {"\n"}) >= 3
    THEN <<"\n", "\n">> \o SqueezeNewlines(Drop(s, Run(s, {"\n"})))
    ELSE <<Head(s)>> \o SqueezeNewlines(Tail(s))

\* Length of the match of r'&[a-zA-Z]+;' at the start of s, 0 for none.
EntityMatch(s) ==
    LET n == Run(Tail(s), Letters)
    IN IF Head(s) = "&" /\ n > 0 /\ Len(s) >= n + 2 /\ s[n + 2] = ";"
       THEN n + 2
       ELSE 0

\* re.sub(r'&[a-zA-Z]+;', ' ', text)
RECURSIVE ReplaceEntities(_)
ReplaceEntities(s) ==
    IF s = <<>> THEN <<>>
    ELSE IF EntityMatch(s) > 0
    THEN <<" ">> \o ReplaceEntities(Drop(s, EntityMatch(s)))
    ELSE <<Head(s)>> \o ReplaceEntities(Tail(s))

\* re.sub(r'(?<=[a-z])(?=[A-Z])', ' ', text)
RECURSIVE SplitCamelCase(_)
SplitCamelCase(s) ==
    IF s = <<>> THEN <<>>
    ELSE IF Len(s) >= 2 /\ s[1] \in Lower /\ s[2] \in Upper
    THEN <<s[1], " ">> \o SplitCamelCase(Tail(s))
    ELSE <<Head(s)>> \o SplitCamelCase(Tail(s))

\* clean_text(text)
CleanText(text) ==
    Strip(SplitCamelCase(ReplaceEntities(SqueezeNewlines(
        RemovePageNumbers(CollapseWhitespace(text))))))

(***************************************************************************)
(* SECDocumentProcessor.identify_sections.                                 *)
(***************************************************************************)
\* SEC_SECTIONS, in the order of the alternation of section_pattern.
SEC_SECTIONS ==
    <<<<"B", "U", "S", "I", "N", "E", "S", "S">>,
      <<"R", "I", "S", "K", " ", "F", "A", "C", "T", "O", "R", "S">>,
      <<"M", "A", "N", "A", "G", "E", "M", "E", "N", "T", "'", "S", " ",
        "D", "I", "S", "C", "U", "S", "S", "I", "O", "N", " ", "A", "N",
        "D", " ", "A", "N", "A", "L", "Y", "S", "I", "S">>,
      <<"F", "I", "N", "A", "N", "C", "I", "A", "L", " ", "S", "T", "A",
        "T", "E", "M", "E", "N", "T", "S">>,
      <<"C", "L", "I", "N", "I", "C", "A", "L", " ", "T", "R", "I", "A",
        "L", "S">>,
      <<"P", "R", "O", "D", "U", "C", "T", " ", "P", "I", "P", "E", "L",
        "I", "N", "E">>,
      <<"I", "N", "T", "E", "L", "L", "E", "C", "T", "U", "A", "L", " ",
        "P", "R", "O", "P", "E", "R", "T", "Y">>,
      <<"C", "O", "M", "P", "E", "T", "I", "T", "I", "O", "N">>,
      <<"R", "E", "G", "U", "L", "A", "T", "O", "R", "Y">>,
      <<"I", "T", "E", "M", " ", "1", "A">>,
      <<"I", "T", "E", "M", " ", "7">>,
      <<"P", "A", "R", "T", " ", "I">>,
      <<"P", "A", "R", "T", " ", "I", "I">>>>

\* [\s:\.\n], the character required after a header.
HeaderTrailers == Whitespace \cup {":", "."}

\* s starts with the header h, compared case-insensitively.
StartsWithHeader(s, h) ==
    /\ Len(s) >= Len(h)
    /\ \A i \in 1..Len(h) : ToUpper(s[i]) = h[i]

\* The match of section_pattern that starts at offset p of text, or no
\* match: '(?:^|\n)' holds at the start of a line or consumes a newline,
\* '\s*' runs up to the header, the alternation takes the first header of
\* SEC_SECTIONS that is followed by a trailer.
MatchAt(text, p) ==
    LET at_line_start == p = 0 \/ text[p] = "\n"
        q == p + Run(Drop(text, p), Whitespace)
        rest == Drop(text, q)
        fits(h) == /\ StartsWithHeader(rest, h)
                   /\ Len(rest) > Len(h)
                   /\ rest[Len(h) + 1] \in HeaderTrailers
        found == {i \in 1..Len(SEC_SECTIONS) : fits(SEC_SECTIONS[i])}
    IN IF (at_line_start \/ text[p + 1] = "\n") /\ found # {}
       THEN LET h == SEC_SECTIONS[SetMin(found)]
            IN [matched |-> TRUE, start |-> p, end |-> q + Len(h) + 1,
                group1 |-> SubSeq(rest, 1, Len(h))]
       ELSE [matched |-> FALSE, start |-> p, end |-> p, group1 |-> <<>>]

\* list(re.finditer(section_pattern, text, re.IGNORECASE | re.MULTILINE)):
\* the leftmost match at or after offset from, then the matches after it.
RECURSIVE FindMatches(_, _)
FindMatches(text, from) ==
    LET starts == {p \in from..(Len(text) - 1) : MatchAt(text, p).matched}
    IN IF starts = {} THEN <<>>
       ELSE LET m == MatchAt(text, SetMin(starts))
            IN <<m>> \o FindMatches(text, m.end)

\* start_pos = match.start()
SectionStart(matches, i) == matches[i].start

\* identify_sections(text): (section_name, start_pos, end_pos) per match, or
\* the whole text as FULL_DOCUMENT.
IdentifySections(text) ==
    LET matches == FindMatches(text, 0)
    IN IF matches = <<>>
       THEN <<[name |-> "FULL_DOCUMENT", start |-> 0, end |-> Len(text)]>>
       ELSE [i \in 1..Len(matches) |->
                [name  |-> Strip(matches[i].group1),
                 start |-> SectionStart(matches, i),
                 end   |-> IF i + 1 <= Len(matches)
                           THEN matches[i + 1].start
                           ELSE Len(text)]]

(***************************************************************************)
(* SECDocumentProcessor.chunk_text.                                        *)
(***************************************************************************)
\* The number of characters below which a section is skipped (100 in the
\* code).
MinSectionChars == ScaledMinSection

\* The (chunk_size, chunk_overlap) pairs a processor is constructed with, in
\* tokens; the default is (512, 50).
Configs ==
    {cfg \in [chunk_size : 1..MaxChunkTokens, chunk_overlap : 0..MaxChunkTokens] :
        2 * cfg.chunk_overlap <= cfg.chunk_size}

\* self.chunk_char_size = chunk_size * 4
ChunkCharSize(cfg) == cfg.chunk_size * 4

\* self.overlap_char_size = chunk_overlap * 4
OverlapCharSize(cfg) == cfg.chunk_overlap * 4

\* sentence_ends
SentenceEnds ==
    <<<<".", " ">>, <<".", "\n">>, <<"?", " ">>, <<"?", "\n">>,
      <<"!", " ">>, <<"!", "\n">>>>

\* s.rfind(sub, start, end)
RFind(s, sub, start, end) ==
    LET hits == {i \in SliceIndex(s, start)..(SliceIndex(s, end) - Len(sub)) :
                    Slice(s, i, i + Len(sub)) = sub}
    IN IF hits = {} THEN -1 ELSE CHOOSE i \in hits : \A j \in hits : j <= i

\* The end of the chunk that starts at pos: the hard cutoff, or the end of
\* the last occurrence, in the back half of the window, of the first marker
\* of sentence_ends that occurs there.
ChunkEnd(section_text, pos, cfg) ==
    LET hard == Min(pos + ChunkCharSize(cfg), Len(section_text))
        half == pos + (ChunkCharSize(cfg) \div 2)
        found == {m \in 1..Len(SentenceEnds) :
                     RFind(section_text, SentenceEnds[m], half, hard) # -1}
    IN IF hard < Len(section_text) /\ found # {}
       THEN LET marker == SentenceEnds[SetMin(found)]
            IN RFind(section_text, marker, half, hard) + Len(marker)
       ELSE hard

\* {**d, **metadata}
Merge(d, chunk_metadata) ==
    [key \in DOMAIN d \cup DOMAIN chunk_metadata |->
        IF key \in DOMAIN chunk_metadata THEN chunk_metadata[key] ELSE d[key]]

\* Variant: only chunks of at least four characters are appended.
KeepChunkFullWindow(chunk_text) == Len(chunk_text) >= 4

\* if chunk_text:
KeepChunk(chunk_text) == chunk_text # <<>>

\* The while loop over one section, from cursor pos; chunks holds the chunks
\* appended so far (chunk_id is their count).
RECURSIVE ChunkLoop(_, _, _, _, _, _, _)
ChunkLoop(section_text, section_name, section_start, cfg, chunk_metadata, pos, chunks) ==
    LET chunk_end == ChunkEnd(section_text, pos, cfg)
        chunk_text == Strip(Slice(section_text, pos, chunk_end))
        chunk_data == Merge([text       |-> chunk_text,
                             chunk_id   |-> Len(chunks),
                             section    |-> section_name,
                             char_start |-> section_start + pos,
                             char_end   |-> section_start + chunk_end],
                            chunk_metadata)
        appended == IF KeepChunk(chunk_text) THEN Append(chunks, chunk_data) ELSE chunks
        next_pos == chunk_end - OverlapCharSize(cfg)
    IN IF next_pos >= Len(section_text) - OverlapCharSize(cfg)
          \/ next_pos >= Len(section_text)
       THEN appended
       ELSE ChunkLoop(section_text, section_name, section_start, cfg, chunk_metadata,
                      next_pos, appended)

\* len(section_text.strip()) < 100: the section is skipped.
SectionSkipped(section_text) == Len(Strip(section_text)) < MinSectionChars

\* The for loop over the sections.
RECURSIVE ChunkSections(_, _, _, _, _)
ChunkSections(text, sections, cfg, chunk_metadata, chunks) ==
    IF sections = <<>> THEN chunks
    ELSE LET sec == Head(sections)
             section_text == Slice(text, sec.start, sec.end)
         IN ChunkSections(text, Tail(sections), cfg, chunk_metadata,
                IF SectionSkipped(section_text) THEN chunks
                ELSE ChunkLoop(section_text, sec.name, sec.start, cfg,
                               chunk_metadata, 0, chunks))

\* chunk_text(text, metadata) of a processor constructed with cfg.
ChunkText(text, cfg, chunk_metadata) ==
    LET cleaned == CleanText(text)
    IN ChunkSections(cleaned, IdentifySections(cleaned), cfg, chunk_metadata, <<>>)

(***************************************************************************)
(* RAGSearchEngine.load_chunk_text.                                        *)
(***************************************************************************)
NoFilePath == <<"[Text not available - missing file path]">>

\* full_text[char_start:char_end] of the text load_filing returns.
SliceOfLoaded(full_text, char_start, char_end) ==
    Slice(full_text, char_start, char_end)

\* load_chunk_text(result), full_text being what load_filing(file_path)
\* returns.
LoadChunkText(result, full_text) ==
    LET file_path == Get(result, "file_path", None)
        char_start == Get(result, "char_start", 0)
        char_end == Get(result, "char_end", None)
    IN IF ~Truthy(file_path) THEN NoFilePath
       ELSE Strip(CleanText(
                SliceOfLoaded(full_text, char_start,
                              IF Truthy(char_end) THEN char_end
                              ELSE char_start + 2000)))

(***************************************************************************)
(* Filing texts and the calls on the document processor.                   *)
(***************************************************************************)
\* The pieces the filing texts are made of: a word, a space, a line break,
\* two sentence ends, a section header, two HTML entities, a page marker.
Pieces ==
    {<<"a", "b", "c", "d">>,
     <<" ">>,
     <<"\n">>,
     <<".", " ">>,
     <<"?", " ">>,
     <<"P", "A", "R", "T", " ", "I">>,
     <<"&", "n", "b", "s", "p", ";", "&", "n", "b", "s", "p", ";">>,
     <<"P", "a", "g", "e", " ", "1", " ", "o", "f", " ", "2">>}

\* The texts made of at most n pieces.
RECURSIVE TextsOf(_)
TextsOf(n) ==
    IF n = 0 THEN {<<>>}
    ELSE LET shorter == TextsOf(n - 1)
         IN shorter \cup {t \o piece : t \in shorter, piece \in Pieces}

Texts == TextsOf(MaxPieces)

\* filing.file_path of the filing processed.
FilingPath == 1

\* The metadata index_filing passes to create_filing_chunks.
FilingMetadata == [file_path |-> FilingPath]

NoDocCall ==
    [op |-> "none", cfg |-> [chunk_size |-> 0, chunk_overlap |-> 0],
     sections |-> <<>>, chunks |-> <<>>, hit |-> 0, loaded |-> <<>>,
     pos |-> 0, iterations |-> 0]

\* processor.identify_sections(text) on the text of the filing.
DoIdentifySections ==
    /\ doc_call' = [NoDocCall EXCEPT !.op = "identify_sections",
                                     !.sections = IdentifySections(filing_text)]
    /\ UNCHANGED <<index_vars, filing_text, job, progress, batch, query_call, embedder>>

\* processor.clean_text(text): on the text of the filing, or, after a
\* clean_text call, on the text that call returned.
DoCleanText ==
    /\ doc_call' = [NoDocCall EXCEPT
                       !.op = "clean_text",
                       !.loaded = CleanText(IF doc_call.op = "clean_text"
                                            THEN doc_call.loaded
                                            ELSE filing_text)]
    /\ UNCHANGED <<index_vars, filing_text, job, progress, batch, query_call, embedder>>

\* SECDocumentProcessor(cfg).chunk_text(text, metadata) on the text of the
\* filing.
DoChunkText(cfg) ==
    /\ doc_call' = [NoDocCall EXCEPT !.op = "chunk_text", !.cfg = cfg,
                                     !.chunks = ChunkText(filing_text, cfg, FilingMetadata)]
    /\ UNCHANGED <<index_vars, filing_text, job, progress, batch, query_call, embedder>>

\* load_chunk_text(result) for a search hit that carries the file path and
\* the offsets of the i-th chunk.
DoLoadChunkText(i) ==
    /\ doc_call.op \in {"chunk_text", "load_chunk_text"}
    /\ i \in 1..Len(doc_call.chunks)
    /\ doc_call' = [doc_call EXCEPT !.op = "load_chunk_text", !.hit = i,
                                    !.loaded = LoadChunkText(doc_call.chunks[i], filing_text)]
    /\ UNCHANGED <<index_vars, filing_text, job, progress, batch, query_call, embedder>>

(***************************************************************************)
(* chunk_text, one iteration of its while loop at a time.                  *)
(***************************************************************************)
\* Every (chunk_size, chunk_overlap) with the overlap smaller than the
\* window.
LoopConfigs ==
    {cfg \in [chunk_size : 1..MaxWindowTokens, chunk_overlap : 0..MaxWindowTokens] :
        cfg.chunk_overlap < cfg.chunk_size}

\* The pieces of the texts the loop is followed on: a word, a line break, a
\* sentence end, two section headers.
LoopPieces ==
    {<<"a", "b", "c", "d">>,
     <<"\n">>,
     <<".", " ">>,
     <<"P", "A", "R", "T", " ", "I">>,
     <<"I", "T", "E", "M", " ", "7">>}

RECURSIVE LoopTextsOf(_)
LoopTextsOf(n) ==
    IF n = 0 THEN {<<>>}
    ELSE LET shorter == LoopTextsOf(n - 1)
         IN shorter \cup {t \o piece : t \in shorter, piece \in LoopPieces}

LoopTexts == LoopTextsOf(MaxPieces)

\* The sections the for loop still has to chunk: those it skips as too short
\* are dropped from the front.
RECURSIVE DropSkipped(_, _)
DropSkipped(text, sections) ==
    IF sections = <<>> THEN <<>>
    ELSE IF SectionSkipped(Slice(text, Head(sections).start, Head(sections).end))
         THEN DropSkipped(text, Tail(sections))
         ELSE sections

\* The call once the sections left are rest: at "pos = 0" of the first of
\* them, or returned.
AtSection(call, rest) ==
    [call EXCEPT !.op = IF rest = <<>> THEN "chunk_text" ELSE "chunking",
                 !.sections = rest,
                 !.pos = 0]

\* chunk_text(text, metadata) up to its first "pos = 0".
StartChunkText(cfg) ==
    /\ doc_call.op = "none"
    /\ LET cleaned == CleanText(filing_text)
       IN doc_call' = AtSection([NoDocCall EXCEPT !.cfg = cfg],
                                DropSkipped(cleaned, IdentifySections(cleaned)))
    /\ UNCHANGED <<index_vars, filing_text, job, progress, batch, query_call, embedder>>

\* One iteration of the while loop, from the cursor doc_call.pos of the
\* first section left, up to the next test of the loop condition.
ChunkIteration ==
    /\ doc_call.op = "chunking"
    /\ doc_call.iterations < MaxIterations
    /\ LET cfg == doc_call.cfg
           sec == Head(doc_call.sections)
           cleaned == CleanText(filing_text)
           section_text == Slice(cleaned, sec.start, sec.end)
           pos == doc_call.pos
           chunk_end == ChunkEnd(section_text, pos, cfg)
           chunk_text == Strip(Slice(section_text, pos, chunk_end))
           chunk_data == Merge([text       |-> chunk_text,
                                chunk_id   |-> Len(doc_call.chunks),
                                section    |-> sec.name,
                                char_start |-> sec.start + pos,
                                char_end   |-> sec.start + chunk_end],
                               FilingMetadata)
           appended == [doc_call EXCEPT
                           !.chunks = IF KeepChunk(chunk_text)
                                      THEN Append(@, chunk_data) ELSE @,
                           !.iterations = @ + 1]
           next_pos == chunk_end - OverlapCharSize(cfg)
       IN doc_call' =
              IF next_pos >= Len(section_text) - OverlapCharSize(cfg)
                 \/ next_pos >= Len(section_text)
              THEN AtSection(appended, DropSkipped(cleaned, Tail(doc_call.sections)))
              ELSE [appended EXCEPT !.pos = next_pos]
    /\ UNCHANGED <<index_vars, filing_text, job, progress, batch, query_call, embedder>>

(***************************************************************************)
(* RAGSearchEngine.search and _rerank_results.                             *)
(***************************************************************************)
\* What load_filing reads from the file of each filing of the corpus.
FileText(file_path) ==
    CASE file_path % 4 = 1 -> <<"A", "B", "C", "D", ".", " ">>
      [] file_path % 4 = 2 -> <<"e", "f", " ", "a", "b", "c", "d">>
      [] file_path % 4 = 3 -> <<"x", "y", "\n">>
      [] OTHER             -> <<"a", "b", "c", "d", " ", "e", "f">>

\* The query strings: two words, one word in capitals, no word.
Queries ==
    {<<"a", "b", "c", "d", " ", "e", "f">>,
     <<"A", "b", "c", "d">>,
     <<" ">>}

\* The company_id arguments: None, and a company.
QueryCompanies == {None, 2}

\* The points the query vectors lie at: the oldest vector of the corpus, and
\* beyond its newest vector.
QueryPoints == {0, MaxChunks}

\* The filing_types arguments: None, and a list of one type.
FilingTypeLists == {<<>>, <<"10-K">>}

ToLower(c) ==
    IF c \in Upper
    THEN LowerLetters[CHOOSE i \in 1..26 : UpperLetters[i] = c]
    ELSE c

\* str.lower()
LowerText(s) == [i \in 1..Len(s) |-> ToLower(s[i])]

\* str.split(): the maximal runs of non-whitespace characters.
RECURSIVE Split(_)
Split(s) ==
    IF s = <<>> THEN <<>>
    ELSE IF Head(s) \in Whitespace THEN Split(Tail(s))
    ELSE LET n == Run(s, Range(s) \ Whitespace)
         IN <<SubSeq(s, 1, n)>> \o Split(Drop(s, n))

\* sub in s
Contains(s, sub) ==
    \E i \in 0..(Len(s) - Len(sub)) : SubSeq(s, i + 1, i + Len(sub)) = sub

\* The fractions rerank_score is summed of, as one fraction num / den with
\* den > 0: ten times
\*   1 / (1 + score) * 0.5 + (word_score / len(query_words)) * 0.3
\*   + phrase_score * 0.2.
Blend(score, word_score, n_words, phrase_score) ==
    [num |-> 5 * n_words + (3 * word_score + 2 * phrase_score * n_words) * (1 + score),
     den |-> n_words * (1 + score)]

\* Variant: the order of the scores is reversed.
Smaller(a, b) == a.num * b.den < b.num * a.den

\* a > b for two such fractions.
Greater(a, b) == a.num * b.den > b.num * a.den

\* result['rerank_score'] as _rerank_results computes it.
RerankScore(query, result) ==
    LET query_words == Range(Split(LowerText(query)))
        text_lower == LowerText(result.text)
        word_score == Cardinality({word \in query_words : Contains(text_lower, word)})
        phrase_score == IF Contains(text_lower, LowerText(query)) THEN 10 ELSE 0
    IN Blend(result.score, word_score, Cardinality(query_words), phrase_score)

\* The place of r in a list sorted by descending rerank_score: behind the
\* results that do not score less (the sort is stable).
RECURSIVE InsertByScore(_, _)
InsertByScore(sorted, r) ==
    IF sorted = <<>> THEN <<r>>
    ELSE IF Greater(r.rerank_score, Head(sorted).rerank_score)
         THEN <<r>> \o sorted
         ELSE <<Head(sorted)>> \o InsertByScore(Tail(sorted), r)

\* results.sort(key=lambda x: x['rerank_score'], reverse=True)
RECURSIVE SortByRerankScore(_, _)
SortByRerankScore(results, sorted) ==
    IF results = <<>> THEN sorted
    ELSE SortByRerankScore(Tail(results), InsertByScore(sorted, Head(results)))

\* _rerank_results(query, results, k): every result gets its rerank_score
\* and the list is sorted; all the results are returned.
RerankResults(query, results, k) ==
    SortByRerankScore(
        [i \in 1..Len(results) |->
            [key \in DOMAIN results[i] \cup {"rerank_score"} |->
                IF key = "rerank_score" THEN RerankScore(query, results[i])
                ELSE results[i][key]]],
        <<>>)

\* if rerank and len(enhanced_results) > k
ShouldRerank(rerank, enhanced_results, k) == rerank /\ Len(enhanced_results) > k

\* A result of index.search with the keys search reads, and the text
\* load_chunk_text loads for it.
Enhanced(hit, m) ==
    LET entry == m[hit.chunk_id]
        result == [chunk_id |-> hit.chunk_id, score |-> hit.score,
                   file_path |-> entry.file_path,
                   char_start |-> entry.char_start,
                   char_end |-> entry.char_end,
                   filing_type |-> entry.filing_type]
    IN [chunk_id |-> hit.chunk_id, score |-> hit.score,
        filing_type |-> entry.filing_type,
        text |-> LoadChunkText(result, FileText(entry.file_path))]

\* results[:k]
Take(results, k) == SubSeq(results, 1, Min(k, Len(results)))

\* A call not made yet; point is the query vector, candidates is
\* enhanced_results before the rerank.
NoQueryCall ==
    [op |-> "none", query |-> <<>>, company_id |-> None, filing_types |-> <<>>,
     k |-> 0, rerank |-> FALSE, point |-> 0,
     candidates |-> <<>>, raised |-> FALSE, results |-> <<>>]

\* search(query, company_id, filing_types, k, rerank) of an engine whose
\* model has the dimension of the index; the query vector is the point q.
\* _rerank_results divides by len(query_words): ZeroDivisionError for a
\* query without a word. The caller makes one call at a time.
EngineQuery(query, company_id, filing_types, k, rerank, q, reach) ==
    /\ running
    /\ query_call.op = "none"
    /\ LET search_k == IF rerank THEN k * 3 ELSE k
           hits == SearchResults(index, metadata, id_to_idx, q, reach,
                                 search_k, company_id)
           results ==
               IF filing_types # <<>>
               THEN SelectSeq(hits, LAMBDA r :
                        metadata[r.chunk_id].filing_type \in Range(filing_types))
               ELSE hits
           enhanced_results ==
               [i \in 1..Len(results) |-> Enhanced(results[i], metadata)]
           call == [NoQueryCall EXCEPT !.op = "search", !.query = query,
                                       !.company_id = company_id,
                                       !.filing_types = filing_types,
                                       !.k = k, !.rerank = rerank, !.point = q,
                                       !.candidates = enhanced_results]
       IN /\ last' = Call("search", FALSE, <<>>, hits, search_k, company_id,
                          "searched")
          /\ query_call' =
                 IF ShouldRerank(rerank, enhanced_results, k)
                 THEN IF Split(LowerText(query)) = <<>>
                      THEN [call EXCEPT !.raised = TRUE]
                      ELSE [call EXCEPT !.results =
                               Take(RerankResults(query, enhanced_results, k), k)]
                 ELSE [call EXCEPT !.results = Take(enhanced_results, k)]
    /\ UNCHANGED <<running, index, metadata, metadata_order, id_to_idx, next_id,
                   pending_embeddings, pending_chunks, disk, returned_ids,
                   trainings, fed, faults, embedding_dim, filing_text, job, progress,
                   doc_call, batch, embedder>>

\* The caller has taken the list search returned (or its exception).
QueryReturned ==
    /\ query_call.op = "search"
    /\ query_call' = NoQueryCall
    /\ UNCHANGED <<index_vars, filing_text, job, progress, doc_call, batch, embedder>>

(***************************************************************************)
(* get_stats.                                                              *)
(***************************************************************************)
\* Python truthiness of an Optional[str].
TruthyStr(v) == v # NoneStr /\ v # ""

\* filing_type_counts: one key per truthy filing type present, with the
\* number of entries carrying it.
FilingTypeCounts(m) ==
    LET types == {v \in {m[id].filing_type : id \in DOMAIN m} : TruthyStr(v)}
    IN [t \in types |-> Cardinality({id \in DOMAIN m : m[id].filing_type = t})]

\* len(company_counts): the distinct truthy company ids present.
CompaniesIndexed(m) ==
    Cardinality({v \in {m[id].company_id : id \in DOMAIN m} : Truthy(v)})

\* get_stats() of an instance holding index idx and metadata m.
GetStats(idx, m) ==
    [total_vectors     |-> idx.ntotal,
     total_chunks      |-> Cardinality(DOMAIN m),
     is_trained        |-> idx.is_trained,
     companies_indexed |-> CompaniesIndexed(m),
     filing_types      |-> FilingTypeCounts(m)]

(***************************************************************************)
(* The specification.                                                      *)
(***************************************************************************)
\* No process has run yet and the index directory is empty.
InitIndex ==
    /\ running = FALSE
    /\ index = CreateIndex(DefaultDim)
    /\ metadata = EmptyMap
    /\ metadata_order = <<>>
    /\ id_to_idx = EmptyMap
    /\ next_id = 0
    /\ pending_embeddings = <<>>
    /\ pending_chunks = <<>>
    /\ disk = EmptyDisk
    /\ last = Call("none", FALSE, <<>>, <<>>, 0, None, "none")
    /\ returned_ids = <<>>
    /\ trainings = 0
    /\ fed = 0
    /\ faults = 0
    /\ embedding_dim = DefaultDim

\* The index alone: no filing is being processed.
Init ==
    /\ InitIndex
    /\ filing_text = <<>>
    /\ doc_call = NoDocCall
    /\ batch = NoBatch
    /\ query_call = NoQueryCall
    /\ embedder = NoEmbedder
    /\ job = NoJob
    /\ progress = NoProgress

\* Indexing and persistence, with save_index calls that may be interrupted.
Next ==
    \/ Construct(DefaultDim)
    \/ \E n \in 1..MaxBatch, kind \in BatchKinds : Add(n, kind)
    \/ \E c \in Companies : RemoveCompany(c)
    \/ \E outcome \in SaveOutcomes : SaveIndex(outcome)

Spec == Init /\ [][Next]_vars

\* Indexing and searching, with save_index calls that complete.
NextSearch ==
    \/ Construct(DefaultDim)
    \/ \E n \in 1..MaxBatch, kind \in BatchKinds : Add(n, kind)
    \/ \E c \in Companies : RemoveCompany(c)
    \/ SaveIndex("ok")
    \/ \E k \in 1..MaxK, f \in FilterValues, s \in SearchInputs :
          Search(k, f, s[1], s[2])

SearchSpec == Init /\ [][NextSearch]_vars

\* Engines of every model type started over one index directory.
NextEngine ==
    \/ \E model_type \in ModelTypes, use_hybrid \in BOOLEAN :
          EngineConstruct(model_type, use_hybrid)
    \/ \E n \in 1..MaxBatch : EngineAdd(n)
    \/ SaveIndex("ok")
    \/ \E k \in 1..MaxK, is_bio \in BOOLEAN :
          EngineSearch(k, None, 0, "all", is_bio)
    \/ \E has_bio \in BOOLEAN : HybridEncodeTexts(has_bio)

EngineSpec == Init /\ [][NextEngine]_vars

\* Batches of filings indexed by engines of every model type, with
\* save_index calls that may be interrupted.
NextBatch ==
    \/ \E model_type \in ModelTypes, use_hybrid \in BOOLEAN :
          StartEngine(model_type, use_hybrid)
    \/ \E found \in BOOLEAN, n \in 0..MaxFilings : IndexCompanyFilings(found, n)
    \/ \E outcome \in EarlyOutcomes : IndexFilingEarly(outcome)
    \/ IndexFilingAdd
    \/ \E outcome \in SaveOutcomes : IndexFilingSave(outcome)
    \/ \E outcome \in SaveOutcomes : FinishBatch(outcome)

BatchSpec == Init /\ [][NextBatch]_vars

\* The indexing job, stopped and restarted, with and without resume.
NextJob ==
    \/ \E resume \in BOOLEAN : StartJob(resume)
    \/ JobSkip
    \/ \E n \in 1..MaxFilings : JobIndexCompany(n)
    \/ IndexFilingEarly("no_file")
    \/ IndexFilingAdd
    \/ IndexFilingSave("ok")
    \/ FinishBatch("ok")
    \/ JobMarkIndexed
    \/ JobFinish
    \/ JobStop

JobSpec == Init /\ [][NextJob]_vars

\* Indexing and queries through the engine.
NextQuery ==
    \/ Construct(DefaultDim)
    \/ \E n \in 1..MaxBatch : Add(n, "ok")
    \/ \E query \in Queries, company_id \in QueryCompanies,
          filing_types \in FilingTypeLists, k \in 1..MaxK, rerank \in BOOLEAN,
          q \in QueryPoints :
          EngineQuery(query, company_id, filing_types, k, rerank, q, "all")
    \/ QueryReturned

QuerySpec == Init /\ [][NextQuery]_vars

\* One filing of any text, processed by the document processor.
InitDoc ==
    /\ InitIndex
    /\ filing_text \in Texts
    /\ doc_call = NoDocCall
    /\ batch = NoBatch
    /\ query_call = NoQueryCall
    /\ embedder = NoEmbedder
    /\ job = NoJob
    /\ progress = NoProgress

NextDoc ==
    \/ DoIdentifySections
    \/ DoCleanText
    \/ \E cfg \in Configs : DoChunkText(cfg)
    \/ \E i \in 1..(4 * MaxPieces) : DoLoadChunkText(i)

DocSpec == InitDoc /\ [][NextDoc]_vars

\* One filing, chunked one iteration at a time by a processor of any
\* configuration with the overlap smaller than the window.
InitChunk ==
    /\ InitIndex
    /\ filing_text \in LoopTexts
    /\ doc_call = NoDocCall
    /\ batch = NoBatch
    /\ query_call = NoQueryCall
    /\ embedder = NoEmbedder
    /\ job = NoJob
    /\ progress = NoProgress

NextChunk ==
    \/ \E cfg \in LoopConfigs : StartChunkText(cfg)
    \/ ChunkIteration

ChunkSpec == InitChunk /\ [][NextChunk]_vars


(***************************************************************************)
(* Properties.                                                             *)
(***************************************************************************)
IsAdd(call) == call.op = "add_embeddings"

IsRemove(call) == call.op = "remove_company_filings"

IsSave(call) == call.op = "save_index"

IsSearch(call) == call.op = "search"

IsConstruct(call) == call.op = "construct"

\* C1: on one instance the ids add_embeddings returns are strictly
\* increasing in return order, within a call and across calls (so no id is
\* returned twice), whatever remove_company_filings has deleted.
C1_ReturnedIdsIncrease ==
    \A i, j \in 1..Len(returned_ids) :
        i < j => returned_ids[i] < returned_ids[j]

\* C1 witness: ids were returned by the training call and by a later call,
\* after a removal deleted one of the returned ids.
C1_Witness ==
    /\ IsAdd(last) /\ last.note = "added"
    /\ trainings = 1
    /\ Len(returned_ids) > Len(last.ids)
    /\ \E id \in Range(returned_ids) : id \notin DOMAIN metadata

\* C2: a search with company filter X returns no hit whose stored company
\* id differs from X, for every integer X.
C2_FilterCorrect ==
    (IsSearch(last) /\ last.filter # None) =>
        \A i \in 1..Len(last.hits) : last.hits[i].company_id = last.filter

\* The two maps agree: same ids, every position below the vector count, no
\* position recorded twice.
MapsConsistent(m, idm, ntotal) ==
    /\ DOMAIN m = DOMAIN idm
    /\ \A id \in DOMAIN idm : idm[id] < ntotal
    /\ \A a, b \in DOMAIN idm : idm[a] = idm[b] => a = b

\* C3: after every add_embeddings or remove_company_filings call that
\* returns normally the metadata map and the id map hold the same ids, every
\* position is below the vector count and no two ids share a position; an
\* add that leaves the index untrained adds no entry to either map.
C3_MapsInLockstep ==
    [][((IsAdd(last') \/ IsRemove(last')) /\ ~last'.raised) =>
          /\ MapsConsistent(metadata', id_to_idx', index'.ntotal)
          /\ (IsAdd(last') /\ ~index'.is_trained) =>
                (metadata' = metadata /\ id_to_idx' = id_to_idx)]_vars

\* C4: an add that keeps the buffered total below the training minimum
\* leaves the index untrained, and save_index on an untrained index changes
\* none of the three files.
C4_NoTrainingNoFiles ==
    [][/\ (/\ IsAdd(last') /\ running /\ ~index.is_trained
           /\ Len(pending_chunks) + (fed' - fed) < ScaledMinTrain)
          => ~index'.is_trained
       /\ (IsSave(last') /\ running /\ ~index.is_trained) => disk' = disk]_vars

\* C4 witness: save_index was skipped with vectors pending while files of an
\* earlier run are on disk.
C4_Witness ==
    /\ IsSave(last) /\ last.note = "skipped"
    /\ ~index.is_trained
    /\ pending_chunks # <<>>
    /\ Exists(disk.index_file) /\ Exists(disk.metadata_file)

\* C5: with the one-chunk filings of companies 1, 2, 1 buffered below the
\* training minimum, a search filtered by company 1 returns exactly the two
\* chunks of company 1.
C5_SearchSeesPending ==
    (/\ IsSearch(last) /\ last.filter = 1 /\ last.k >= 2
     /\ ~index.is_trained
     /\ pending_chunks = NextChunks(0, 3))
    => (/\ Len(last.hits) = 2
        /\ \A i \in 1..Len(last.hits) : last.hits[i].company_id = 1)

\* C6: the add that brings the buffered total to the training minimum and
\* returns trains once and commits the whole buffer in arrival order: the
\* index is trained, the buffer empty, the vector count the buffer's length,
\* the i-th buffered chunk stored under the i-th assigned id at position
\* i-1; no instance trains twice.
C6_TrainOnceCommitAll ==
    [][/\ (/\ IsAdd(last') /\ ~last'.raised /\ running /\ ~index.is_trained
           /\ Len(pending_chunks) + (fed' - fed) >= ScaledMinTrain)
          => LET buffer == pending_chunks \o NextChunks(fed, fed' - fed)
             IN /\ index'.is_trained
                /\ trainings' = trainings + 1
                /\ pending_chunks' = <<>> /\ pending_embeddings' = <<>>
                /\ index'.ntotal = Len(buffer)
                /\ Len(last'.ids) = Len(buffer)
                /\ \A i \in 1..Len(buffer) :
                      /\ last'.ids[i] = next_id + (i - 1)
                      /\ last'.ids[i] \in DOMAIN metadata'
                      /\ metadata'[last'.ids[i]] = MetadataEntry(buffer[i], i - 1)
                      /\ id_to_idx'[last'.ids[i]] = i - 1
       /\ trainings' <= 1
       /\ (IsAdd(last') /\ index.is_trained /\ running) => trainings' = trainings]_vars

\* C6 witness: a call trained the index over a buffer filled by earlier
\* calls.
C6_Witness ==
    /\ IsAdd(last) /\ last.note = "trained"
    /\ trainings = 1
    /\ index.ntotal >= ScaledMinTrain
    /\ Len(last.ids) = index.ntotal

\* C7: after a save_index that wrote all three files, a fresh instance
\* loading them has an id-map entry for every metadata id, and a vector
\* count above every stored position.
C7_LoadedStateResolvable ==
    (IsSave(last) /\ last.note = "ok") =>
        LET inst == LoadOrCreateIndex(disk, embedding_dim)
        IN /\ DOMAIN inst.metadata \subseteq DOMAIN inst.id_to_idx
           /\ \A id \in DOMAIN inst.id_to_idx :
                 inst.id_to_idx[id] < inst.index.ntotal
           /\ \A id \in DOMAIN inst.metadata :
                 inst.metadata[id].idx < inst.index.ntotal

\* __init__ before any load: no vectors, untrained, empty maps, next id 0.
FreshEmpty ==
    /\ index = CreateIndex(embedding_dim)
    /\ metadata = EmptyMap
    /\ id_to_idx = EmptyMap
    /\ next_id = 0

\* The consistency check of a readable artifact set.
ArtifactsConsistent(d) ==
    LET m == d.metadata_file.data.metadata
        idm == d.id_map_file.data.id_to_idx
    IN /\ Exists(d.id_map_file) \/ DOMAIN m = {}
       /\ DOMAIN m \subseteq DOMAIN idm
       /\ \A id \in DOMAIN idm : idm[id] < d.index_file.data.ntotal
       /\ \A id \in DOMAIN idm \cup DOMAIN m : id < d.id_map_file.data.next_id

\* C8: constructing from a readable artifact set that fails the consistency
\* check yields a fresh empty index, never an instance holding that state.
C8_InconsistentLoadRejected ==
    (/\ IsConstruct(last)
     /\ disk.index_file.state = "ok" /\ disk.metadata_file.state = "ok"
     /\ disk.id_map_file.state # "corrupt"
     /\ ~ArtifactsConsistent(disk))
    => FreshEmpty

\* C9: when reading one of the three artifacts fails, construction yields a
\* fresh empty index: zero vectors, untrained, empty maps, next id 0.
C9_CorruptLoadFallsBack ==
    (/\ IsConstruct(last)
     /\ Exists(disk.index_file) /\ Exists(disk.metadata_file)
     /\ \/ disk.index_file.state = "corrupt"
        \/ disk.metadata_file.state = "corrupt"
        \/ disk.id_map_file.state = "corrupt")
    => (~last.raised /\ FreshEmpty)

\* C10: after any save_index call the three files come from one index
\* state: all as before the call, or all written from the state saved.
C10_ArtifactsOneState ==
    [][(IsSave(last') /\ running) =>
          \/ disk' = disk
          \/ disk' = [index_file |-> NewIndexFile,
                      metadata_file |-> NewMetadataFile,
                      id_map_file |-> NewIdMapFile]]_vars

\* C11: after a save_index that wrote all three files from a trained index,
\* a fresh instance constructed from them reports the same get_stats counts
\* as the saving instance: total vectors, total metadata entries, companies
\* indexed, per-filing-type counts and the trained flag.
C11_StatsSurviveReload ==
    (IsSave(last) /\ last.note = "ok" /\ index.is_trained) =>
        LET inst == LoadOrCreateIndex(disk, embedding_dim)
        IN GetStats(inst.index, inst.metadata) = GetStats(index, metadata)

\* C11 witness: a trained index holding entries of two companies and three
\* filing types was saved, after a removal made the entry count differ from
\* the vector count.
C11_Witness ==
    /\ IsSave(last) /\ last.note = "ok" /\ index.is_trained
    /\ CompaniesIndexed(metadata) = 2
    /\ Cardinality(DOMAIN FilingTypeCounts(metadata)) = 3
    /\ Cardinality(DOMAIN metadata) < index.ntotal

\* The keys of a stored metadata entry.
EntryKeys ==
    {"idx", "file_path", "section", "filing_id", "company_id", "filing_type",
     "filing_date", "char_start", "char_end", "indexed_at"}

TextFree(m) ==
    \A id \in DOMAIN m : "text" \notin DOMAIN m[id] /\ DOMAIN m[id] \subseteq EntryKeys

\* C15: in every reachable state no metadata entry, in memory or in the
\* persisted metadata file, has a "text" key: every entry holds only
\* position, file path, section, filing id, company id, filing type, filing
\* date, character start/end and index time, although the added chunk
\* dictionaries carry text, chunk_id and accession_number.
C15_NoRawText ==
    /\ TextFree(metadata)
    /\ TextFree(disk.metadata_file.data.metadata)

\* C15 witness: entries built from chunk dictionaries that carry their text
\* are held in memory and in the metadata file.
C15_Witness ==
    /\ \A i \in 1..fed : "text" \in DOMAIN CorpusChunk(i)
    /\ metadata # EmptyMap
    /\ disk.metadata_file.state = "ok"
    /\ disk.metadata_file.data.metadata # EmptyMap

\* The map f without the keys in S.
Restrict(f, S) == [x \in DOMAIN f \ S |-> f[x]]

\* C18: remove_company_filings(c) deletes exactly the metadata and id-map
\* entries of the ids whose metadata carries company id c, and leaves the
\* vector count, the trained flag, the next id and every other entry and
\* position unchanged.
C18_RemoveExactlyCompany ==
    [][(IsRemove(last') /\ running) =>
          LET gone == {id \in DOMAIN metadata :
                          metadata[id].company_id = last'.filter}
          IN /\ metadata' = Restrict(metadata, gone)
             /\ id_to_idx' = Restrict(id_to_idx, gone)
             /\ index' = index
             /\ next_id' = next_id]_vars

\* The entry was built from the chunk.
EntryOfChunk(entry, chunk) ==
    /\ entry.filing_id = chunk.filing_id
    /\ entry.company_id = chunk.company_id
    /\ entry.file_path = chunk.file_path

\* The i-th returned id is the key of the entry of the i-th chunk.
IdsKeyChunks(ids, chunks, m) ==
    /\ Len(ids) = Len(chunks)
    /\ \A i \in 1..Len(chunks) :
          ids[i] \in DOMAIN m /\ EntryOfChunk(m[ids[i]], chunks[i])

\* C19: an add_embeddings call that returns and leaves the index untrained
\* returns no id; one made on a trained index returns one id per input
\* chunk, in input order, the i-th id being the key of the i-th chunk's
\* entry; the call that trains returns, in the same way, the ids of all the
\* chunks it commits, the buffered ones first.
C19_AddReturnsIds ==
    [][(IsAdd(last') /\ ~last'.raised /\ running) =>
          LET chunks == NextChunks(fed, fed' - fed)
          IN /\ ~index'.is_trained => last'.ids = <<>>
             /\ index.is_trained => IdsKeyChunks(last'.ids, chunks, metadata')
             /\ (~index.is_trained /\ index'.is_trained) =>
                   IdsKeyChunks(last'.ids, pending_chunks \o chunks, metadata')]_vars

\* C19 witness: a call on a trained index returned the ids of a batch of
\* several chunks, after the training call had returned the ids of the
\* buffer.
C19_Witness ==
    /\ IsAdd(last) /\ last.note = "added"
    /\ Len(last.ids) = MaxBatch
    /\ trainings = 1
    /\ Len(returned_ids) >= ScaledMinTrain + MaxBatch

\* C16: an instance whose embedding dimension differs from the dimension of
\* the ANN structure it holds exists only as a failed construction: no
\* construction with a dimension other than that of the loaded structure
\* returns an instance, so no add_embeddings or search is the first call to
\* fail on the mismatch.
C16_MismatchFailsAtInit ==
    (running /\ index.d # embedding_dim) => (IsConstruct(last) /\ last.raised)

\* C12: load_chunk_text for a hit carrying the file path and the offsets of
\* a chunk that chunk_text produced from the filing returns that chunk's
\* text, the slice [char_start, char_end) of the cleaned text, stripped.
C12_LoadReturnsChunkText ==
    doc_call.op = "load_chunk_text" =>
        doc_call.loaded = doc_call.chunks[doc_call.hit].text

\* The sections chunk_text works on, and the chunks it returned per section.
ChunkedSections == IdentifySections(CleanText(filing_text))

ChunksOf(sec) ==
    SelectSeq(doc_call.chunks,
              LAMBDA c : c.char_start >= sec.start /\ c.char_end <= sec.end)

\* Consecutive chunks of the section overlap by at most the overlap size.
OverlapBounded(sec) ==
    LET cs == ChunksOf(sec)
    IN \A i \in 1..(Len(cs) - 1) :
          /\ cs[i].char_start <= cs[i + 1].char_start
          /\ cs[i].char_end - cs[i + 1].char_start <= 4 * doc_call.cfg.chunk_overlap

C14_SectionsTileText ==
    doc_call.op = "identify_sections" =>
        LET secs == doc_call.sections
        IN /\ secs # <<>>
           /\ secs[1].start = 0
           /\ \A i \in 1..(Len(secs) - 1) : secs[i + 1].start = secs[i].end
           /\ secs[Len(secs)].end = Len(filing_text)


\* C17: index_company_filings for a company the database holds does not
\* raise; the filings are handed to index_filing in order, each attempted
\* filing is counted in indexed_filings or listed in failed_filings, and the
\* call returns only after every filing was attempted and save_index was
\* called, with indexed_filings + len(failed_filings) = total_filings.
C17_BatchAccountsForEveryFiling ==
    /\ batch.state = "raised" => batch.note = "ValueError"
    /\ batch.attempted = [i \in 1..Len(batch.attempted) |-> i]
    /\ batch.state \in {"loop", "returned"} =>
           batch.indexed_filings + Len(batch.failed_filings) = Len(batch.attempted)
    /\ batch.state = "returned" =>
           /\ Len(batch.attempted) = batch.total_filings
           /\ batch.indexed_filings + Len(batch.failed_filings) = batch.total_filings
           /\ batch.note \in SaveOutcomes \cup {"skipped"}

\* C17 witness: a batch returned whose first filing failed and whose last
\* filing was indexed.
C17_Witness ==
    /\ batch.state = "returned"
    /\ batch.total_filings = MaxFilings
    /\ batch.failed_filings # <<>>
    /\ batch.failed_filings[1] = 1
    /\ batch.indexed_filings > 0

\* a >= b for two rerank scores.
NotLess(a, b) == ~Greater(b, a)

\* C20: the list search returns has at most k entries; it is in ascending
\* order of distance for rerank=False and in descending order of the blended
\* score for rerank=True.
C20_ResultsOrdered ==
    (query_call.op = "search" /\ ~query_call.raised
        /\ Split(LowerText(query_call.query)) # <<>>) =>
        LET results == query_call.results
        IN /\ Len(results) <= query_call.k
           /\ \A i, j \in 1..Len(results) :
                  i < j =>
                      IF query_call.rerank
                      THEN NotLess(RerankScore(query_call.query, results[i]),
                                   RerankScore(query_call.query, results[j]))
                      ELSE results[i].score <= results[j].score

\* The places of a chunk in a list of results.
PlacesOf(chunk_id, results) ==
    {r \in 1..Len(results) : results[r].chunk_id = chunk_id}

\* C21: in a search with rerank=True, a candidate whose loaded text contains
\* the query string verbatim is not placed lower in the returned list than
\* in the distance order of the candidates: a candidate among the first k in
\* distance order is returned, and a returned one stands at its place in
\* distance order or before it.
C21_PhraseMatchNotDemoted ==
    (query_call.op = "search" /\ ~query_call.raised /\ query_call.rerank) =>
        \A p \in 1..Len(query_call.candidates) :
            LET cand == query_call.candidates[p]
                places == PlacesOf(cand.chunk_id, query_call.results)
            IN Contains(cand.text, query_call.query) =>
                  /\ p <= query_call.k => places # {}
                  /\ \A r \in places : r <= p

\* C21 witness: the rerank moved a candidate holding the query phrase from
\* behind a nearer candidate without the phrase to the head of the list.
C21_Witness ==
    /\ query_call.op = "search" /\ ~query_call.raised /\ query_call.rerank
    /\ \E p \in 2..Len(query_call.candidates) :
          /\ Contains(query_call.candidates[p].text, query_call.query)
          /\ ~Contains(query_call.candidates[1].text, query_call.query)
          /\ query_call.candidates[1].score < query_call.candidates[p].score
          /\ query_call.results[1].chunk_id = query_call.candidates[p].chunk_id

\* C22: in hybrid mode, the general and the biomedical model having
\* different dimensions, every encoding is done by the general model and
\* yields vectors of the dimension the index was configured with.
C22_HybridEncodesWithGeneral ==
    (running /\ embedder.hybrid /\ embedder.op # "none") =>
        /\ ~embedder.raised
        /\ embedder.used = "general-fast"
        /\ embedder.dim = embedding_dim

\* The offsets directly behind the sentence terminators of any kind that
\* lie in s[start:end].
TerminatorEnds(s, start, end) ==
    {i + 2 : i \in {j \in start..(end - 2) :
                        Slice(s, j, j + 2) \in Range(SentenceEnds)}}

SetMax(S) == CHOOSE x \in S : \A y \in S : y <= x

\* C23: a chunk whose window is cut before the end of its section, with a
\* sentence terminator in the back half of the window, ends directly behind
\* the last terminator of any kind before the hard cutoff.
C23_EndsAtNearestTerminator ==
    doc_call.op = "chunk_text" =>
        \A j \in 1..Len(ChunkedSections) :
            LET sec == ChunkedSections[j]
                cs == ChunksOf(sec)
                section_text == Slice(CleanText(filing_text), sec.start, sec.end)
                size == 4 * doc_call.cfg.chunk_size
            IN \A i \in 1..Len(cs) :
                  LET pos == cs[i].char_start - sec.start
                      hard == Min(pos + size, Len(section_text))
                      ends == TerminatorEnds(section_text, pos + (size \div 2), hard)
                  IN (hard < Len(section_text) /\ ends # {}) =>
                        cs[i].char_end - sec.start = SetMax(ends)

\* C24: an add_embeddings call that raises leaves the metadata map, the
\* id-to-position map, the next id, the pending buffer and the ANN structure
\* as they were before the call, and no two ids of the id-to-position map
\* record the same position.
C24_AddAllOrNothing ==
    [][/\ (IsAdd(last') /\ last'.raised) =>
              UNCHANGED <<metadata, id_to_idx, next_id, pending_embeddings,
                          pending_chunks, index>>
       /\ \A a, b \in DOMAIN id_to_idx' :
              a # b => id_to_idx'[a] # id_to_idx'[b]]_vars

\* C25: when remove_company_filings(c) has returned and the next call on
\* the index is an add_embeddings without a chunk of company c, then after
\* that call get_stats counts no chunk of c and no search returns a hit of
\* c, also when the removal found the index untrained with chunks of c in
\* the pending buffer.
C25_RemovedCompanyStaysOut ==
    [][(/\ IsRemove(last) /\ ~last.raised
        /\ IsAdd(last')
        /\ \A i \in (fed + 1)..fed' : CorpusChunk(i).company_id # last.filter) =>
           /\ \A id \in DOMAIN metadata' :
                  metadata'[id].company_id # last.filter
           /\ \A s \in SearchInputs, k \in 1..MaxK :
                  LET hits == SearchResults(index', metadata', id_to_idx',
                                            s[1], s[2], k, None)
                  IN \A h \in 1..Len(hits) :
                         hits[h].company_id # last.filter]_vars

\* The chunks an engine started over the index directory holds.
RecoverableChunks ==
    LET inst == LoadOrCreateIndex(disk, DefaultDim)
    IN IF inst.index.ntotal < Cardinality(DOMAIN inst.metadata)
       THEN inst.index.ntotal
       ELSE Cardinality(DOMAIN inst.metadata)

\* C26: the chunks of the companies the progress file lists as indexed are
\* in the persisted index files: the files hold at least the total_chunks
\* the progress file counts for the listed companies, at every point at
\* which the job can be stopped.
C26_ListedCompaniesOnDisk ==
    progress.total_chunks <= RecoverableChunks

\* C27: with the overlap smaller than the window, every iteration of the
\* while loop of chunk_text that goes on to another iteration of the same
\* section leaves the cursor strictly further and not negative.
C27_CursorMovesForward ==
    [][(doc_call.op = "chunking" /\ doc_call'.op = "chunking"
        /\ doc_call'.iterations = doc_call.iterations + 1
        /\ doc_call'.sections = doc_call.sections)
       => (doc_call'.pos > doc_call.pos /\ doc_call'.pos >= 0)]_vars

\* C28: cleaning is idempotent: clean_text applied to a text that clean_text
\* returned gives that text back.
C28_CleanIdempotent ==
    [][(doc_call.op = "clean_text" /\ doc_call'.op = "clean_text")
       => doc_call'.loaded = doc_call.loaded]_vars

\* The sections of the raw text of the filing, by its headers.
RawSections == IdentifySections(filing_text)

\* C29: when the raw text of the filing has two or more recognised headers,
\* each at the start of a line and none over a section too short to be
\* chunked, the chunks chunk_text returns carry the label of each of these
\* headers: every header labels the chunks that lie under it.
C29_ChunksLabelledByHeader ==
    (/\ doc_call.op = "chunk_text"
     /\ Len(RawSections) >= 2
     /\ \A j \in 1..Len(RawSections) :
            ~SectionSkipped(Slice(filing_text, RawSections[j].start,
                                  RawSections[j].end)))
    => \A j \in 1..Len(RawSections) :
          \E i \in 1..Len(doc_call.chunks) :
              doc_call.chunks[i].section = RawSections[j].name

\* The chunks among the raw candidates the index fetched for the query of
\* the call (the nearest min(10 k, ntotal) vectors) that pass the company
\* filter and carry one of the filing types asked for.
MatchingInPool ==
    LET raw == IF index.ntotal = 0 THEN <<>>
               ELSE IndexSearch(query_call.point, "all", index.ntotal,
                                Min(query_call.k * OverFetch, index.ntotal))
        matches(cand) ==
            LET chunk_id == ChunkIdAt(id_to_idx, cand.idx)
            IN /\ cand.idx # NoLabel
               /\ chunk_id # None
               /\ chunk_id \in DOMAIN metadata
               /\ ~FilteredOut(query_call.company_id, metadata[chunk_id])
               /\ metadata[chunk_id].filing_type \in Range(query_call.filing_types)
    IN {i \in 1..Len(raw) : matches(raw[i])}

\* C30: a search with a filing-type filter and rerank=False returns fewer
\* than k results only if fewer than k chunks of the raw candidates pass the
\* company filter and carry one of the filing types (stated of the call the
\* index served last, before anything else is done to the index).
C30_FilteredSearchFillsK ==
    (/\ query_call.op = "search"
     /\ last.op = "search"
     /\ ~query_call.rerank
     /\ query_call.filing_types # <<>>
     /\ Len(query_call.results) < query_call.k)
    => Cardinality(MatchingInPool) < query_call.k

====
